---- MODULE Spec2Model ----
(***************************************************************************)
(* Model of tracking/train_sot.py: main() and epoch_train(), the epoch     *)
(* orchestration loop of the siamese tracker training script.              *)
(*                                                                         *)
(* One process run is main() -> epoch_train().  The checkpoint directory   *)
(* (disk) outlives a process, so that a later run can be started with      *)
(* config.TRAIN.RESUME pointing at a checkpoint an earlier run has saved.  *)
(* The helpers of utils.lr_scheduler and utils.model_helper are not part   *)
(* of the file; they are modelled from their documented contracts.         *)
(***************************************************************************)
EXTENDS Integers, Sequences, FiniteSets, TLC

\* ------------------------------------------------------------------ bounds
MaxEpoch == 3
MaxRuns  == 2
MaxGpus  == 2
MaxBatch == 2
MaxData  == 4

\* ------------------------------------------------- architecture identifiers
\* config.MODEL.NAME is a string; it is kept as a sequence of characters so
\* that the substring test of line 51 is computed, not assumed.
SiamFC  == <<"S", "i", "a", "m", "F", "C">>
SiamDW  == <<"S", "i", "a", "m", "D", "W">>
OceanPlus == <<"O", "c", "e", "a", "n", "P", "l", "u", "s">>
AutoMatch == <<"A", "u", "t", "o", "M", "a", "t", "c", "h">>
TransT  == <<"T", "r", "a", "n", "s", "T">>
Ocean   == <<"O", "c", "e", "a", "n">>
ResNet  == <<"R", "e", "s", "N", "e", "t">>
\* the identifiers a run is started with: a table-driven one, a
\* scheduler-driven one and one that line 51 rejects
Names   == {SiamFC, Ocean, ResNet}

\* python: sub in s
Contains(s, sub) ==
    \E i \in 1..(Len(s) - Len(sub) + 1) : SubSeq(s, i, i + Len(sub) - 1) = sub

ModelSupportedAll(name) == TRUE
\* line 51
ModelSupported(name) ==
    \/ Contains(name, <<"S", "i", "a", "m">>)
    \/ name \in {Ocean, OceanPlus, AutoMatch, TransT}

\* lines 62, 65, 119: config.MODEL.NAME in ['SiamDW', 'SiamFC']
TableDriven(name) == name \in {SiamDW, SiamFC}

Phases == {"WARM", "FULL"}

\* ------------------------------------------------------------------- state
VARIABLES
    config,        \* the RunConfig read by main (line 143)
    pc,            \* position of the process in main/epoch_train
    run,           \* number of process runs started so far
    resources,     \* what this process has constructed so far
    model,         \* [weights, wrap]
    optimizer,     \* [gen, phase, st]
    lr_scheduler,  \* [gen, strategy, last_epoch]
    start_epoch,   \* line 77 / 79
    epoch,         \* loop variable of line 101
    curLR,         \* lines 120 / 125
    inputs,        \* the dict handed to the trainer (lines 127-129)
    train_loader,  \* lines 105 / 109
    disk,          \* the checkpoint directory
    log,           \* what this process has done, in order
    written        \* history: what line 134 handed to save_model, per artifact

vars == <<config, pc, run, resources, model, optimizer, lr_scheduler,
          start_epoch, epoch, curLR, inputs, train_loader, disk, log, written>>

NoOptimizer == [gen |-> 0, phase |-> "none", st |-> 0]
NoScheduler == [gen |-> 0, strategy |-> "none", last_epoch |-> -1]
NoLR        == [gen |-> 0, epoch |-> -1]
NoInputs    == [epoch |-> -1, cur_lr |-> NoLR, optimizer |-> 0, phase |-> "none"]
NoLoader    == [sampler |-> "none", seed |-> -1, epoch |-> -1,
                num_replicas |-> 0, rank |-> -1, batch_size |-> 0,
                batches |-> 0, indices |-> <<>>]
\* line 108
SamplerSeed == 42
NoModel     == [weights |-> -1, wrap |-> "none"]

Ev(e, n) == [ev |-> e, epoch |-> n]

\* ------------------------------------------------- external collaborators
\* learner.build_siamese_opt_lr(config, model, current_epoch): scheduler-driven
\* state whose trainable set is the one of current_epoch.
BuildSiameseOptLr(cfg, current_epoch, g) ==
    [optimizer    |-> [gen |-> g,
                       phase |-> IF current_epoch >= cfg.UNFIX_EPOCH
                                 THEN "FULL" ELSE "WARM",
                       st |-> 0],
     lr_scheduler |-> [gen |-> g, strategy |-> "scheduler",
                       last_epoch |-> cfg.START_EPOCH]]

\* learner.build_simple_siamese_opt_lr(config, trainable_params): table-driven
\* state over the parameters that are trainable in the model as built.
BuildSimpleSiameseOptLr(cfg, trainable, g) ==
    [optimizer    |-> [gen |-> g, phase |-> trainable, st |-> 0],
     lr_scheduler |-> [gen |-> g, strategy |-> "table", last_epoch |-> -1]]

\* loader.save_model(model, epoch, optimizer, name, config, isbest): the
\* artifact of (epoch, name) is written, whatever isbest is.
Key(c) == [epoch |-> c.epoch, arch |-> c.arch]
SaveModelFile(d, m, e, opt, name, isbest) ==
    LET c == [epoch |-> e, arch |-> name, state_dict |-> m.weights,
              optimizer |-> opt.st]
    IN  {x \in d : Key(x) # Key(c)} \cup {c}

\* loader.restore_from(model, optimizer, path)
Stored(d, path) == CHOOSE c \in d : Key(c) = path[1]
RestoreOk(d, path, name) ==
    /\ \E c \in d : Key(c) = path[1]
    /\ Stored(d, path).arch = name
RestoreFrom(d, m, opt, path) ==
    LET c == Stored(d, path)
    IN  [model       |-> [m EXCEPT !.weights = c.state_dict],
         optimizer   |-> [opt EXCEPT !.st = c.optimizer],
         start_epoch |-> c.epoch + 1,
         arch        |-> c.arch]

\* --------------------------------------------------- torch.utils.data
\* torch.randperm(n, generator seeded with s): one fixed order of 0..n-1 for
\* each seed
Randperm(n, s) == [i \in 1..n |-> (i - 1 + s) % n]

\* DistributedSampler(dataset, num_replicas, rank, shuffle=True, seed):
\* the shuffled indices, padded with its own head up to a multiple of
\* num_replicas, of which the rank takes every num_replicas-th; ep is the
\* sampler's epoch, 0 unless set_epoch is called
DistributedSamplerIndices(n, num_replicas, rank, seed, ep) ==
    LET num_samples == (n + num_replicas - 1) \div num_replicas
        total_size  == num_samples * num_replicas
        perm        == Randperm(n, seed + ep)
        padded      == [i \in 1..total_size |-> perm[((i - 1) % n) + 1]]
    IN  [k \in 1..num_samples |-> padded[rank + 1 + (k - 1) * num_replicas]]

\* len(DataLoader(..., batch_size, drop_last=True)) over n samples
DataLoaderLen(n, batch_size) == n \div batch_size

\* lines 82-84: gpu_num = world_size = len(gpus)
GpuNum(cfg) == Len(cfg.GPUS)

\* line 103: the dataset data_builder(config) yields
TrainSet(cfg) == [i \in 1..cfg.DATA_LEN |-> i - 1]

\* lines 105-106: the loader of the whole dataset, in order
LocalLoader(cfg, e) ==
    [sampler |-> "None", seed |-> -1, epoch |-> e,
     num_replicas |-> 0, rank |-> -1,
     batch_size |-> cfg.BATCH * GpuNum(cfg),
     batches |-> DataLoaderLen(Len(TrainSet(cfg)), cfg.BATCH * GpuNum(cfg)),
     indices |-> TrainSet(cfg)]

DistributedLoaderReseeded(cfg, e) ==
    LET shard == DistributedSamplerIndices(Len(TrainSet(cfg)), GpuNum(cfg),
                                           cfg.RANK, SamplerSeed + e, 0)
    IN  [sampler |-> "DistributedSampler", seed |-> SamplerSeed + e, epoch |-> e,
         num_replicas |-> GpuNum(cfg), rank |-> cfg.RANK,
         batch_size |-> cfg.BATCH * GpuNum(cfg),
         batches |-> DataLoaderLen(Len(shard), cfg.BATCH * GpuNum(cfg)),
         indices |-> shard]

DistributedLoaderKeepLast(cfg, e) ==
    LET shard == DistributedSamplerIndices(Len(TrainSet(cfg)), GpuNum(cfg),
                                           cfg.RANK, SamplerSeed, 0)
    IN  [sampler |-> "DistributedSampler", seed |-> SamplerSeed, epoch |-> e,
         num_replicas |-> GpuNum(cfg), rank |-> cfg.RANK,
         batch_size |-> cfg.BATCH * GpuNum(cfg),
         batches |-> (Len(shard) + cfg.BATCH * GpuNum(cfg) - 1)
                        \div (cfg.BATCH * GpuNum(cfg)),
         indices |-> shard]

\* lines 108-110: the loader of this rank's shard; the sampler is a new
\* object in every epoch and set_epoch is never called on it
DistributedLoader(cfg, e) ==
    LET shard == DistributedSamplerIndices(Len(TrainSet(cfg)), GpuNum(cfg),
                                           cfg.RANK, SamplerSeed, 0)
    IN  [sampler |-> "DistributedSampler", seed |-> SamplerSeed, epoch |-> e,
         num_replicas |-> GpuNum(cfg), rank |-> cfg.RANK,
         batch_size |-> cfg.BATCH * GpuNum(cfg),
         batches |-> DataLoaderLen(Len(shard), cfg.BATCH * GpuNum(cfg)),
         indices |-> shard]

\* ------------------------------------------------------------------- Init
\* COMMON.GPUS, already split at its commas (line 82)
GpuLists == {[i \in 1..n |-> i - 1] : n \in 1..MaxGpus}

\* the epoch configurations, on one data configuration
Configs ==
    [NAME : Names, START_EPOCH : 0..MaxEpoch, UNFIX_EPOCH : 0..MaxEpoch,
     END_EPOCH : 0..MaxEpoch, RESUME : {<<>>}, DDP : BOOLEAN,
     GPUS : {<<0, 1>>}, BATCH : {1}, RANK : {0}, DATA_LEN : {3}]

\* the data configurations, on one epoch configuration
DataConfigs ==
    [NAME : {Ocean}, START_EPOCH : {0}, UNFIX_EPOCH : {1},
     END_EPOCH : {2}, RESUME : {<<>>}, DDP : BOOLEAN,
     GPUS : GpuLists, BATCH : 1..MaxBatch, RANK : 0..(MaxGpus - 1),
     DATA_LEN : 0..MaxData]

InitProcess ==
    /\ pc = "main"
    /\ run = 1
    /\ resources = {}
    /\ model = NoModel
    /\ optimizer = NoOptimizer
    /\ lr_scheduler = NoScheduler
    /\ start_epoch = -1
    /\ epoch = -1
    /\ curLR = NoLR
    /\ inputs = NoInputs
    /\ train_loader = NoLoader
    /\ disk = {}
    /\ log = <<>>
    /\ written = {}

InitData ==
    /\ config \in {c \in DataConfigs : c.RANK < GpuNum(c)}
    /\ InitProcess

Init ==
    /\ config \in {c \in Configs : c.START_EPOCH <= c.END_EPOCH}
    /\ InitProcess

\* -------------------------------------------------------------- main()
MainNoProcessGroup ==
    /\ pc = "main"
    /\ resources' = resources \cup {"env", "logger", "writer"}
    /\ log' = log
    /\ pc' = "build_model"
    /\ UNCHANGED <<config, run, model, optimizer, lr_scheduler, start_epoch,
                   epoch, curLR, inputs, train_loader, disk, written>>

\* lines 139-159, 175: environment, process group, logger, tensorboard writer
Main ==
    /\ pc = "main"
    /\ resources' = resources \cup {"env", "logger", "writer"}
                      \cup (IF config.DDP THEN {"process_group"} ELSE {})
    /\ log' = log \o (IF config.DDP THEN <<Ev("init_process_group", -1)>> ELSE <<>>)
    /\ pc' = "build_model"
    /\ UNCHANGED <<config, run, model, optimizer, lr_scheduler, start_epoch,
                   epoch, curLR, inputs, train_loader, disk,
                   written>>

\* ------------------------------------------------------- epoch_train()
\* lines 51-59
BuildModel ==
    /\ pc = "build_model"
    /\ IF ModelSupported(config.NAME)
       THEN /\ model' = [weights |-> 0, wrap |-> "none"]
            /\ resources' = resources \cup {"model", "device"}
            /\ log' = Append(log, Ev("build_model", -1))
            /\ pc' = "get_optimizer"
       ELSE /\ log' = Append(log, Ev("raise", -1))
            /\ pc' = "failed"
            /\ UNCHANGED <<model, resources,
                   written>>
    /\ UNCHANGED <<config, run, optimizer, lr_scheduler, start_epoch, epoch,
                   curLR, inputs, train_loader, disk,
                   written>>

GetOptimizerFromStart ==
    /\ pc = "get_optimizer"
    /\ \E trainable \in Phases :
         LET built ==
               IF TableDriven(config.NAME)
               THEN BuildSimpleSiameseOptLr(config, trainable, 1)
               ELSE BuildSiameseOptLr(config, config.START_EPOCH, 1)
         IN  /\ optimizer' = built.optimizer
             /\ lr_scheduler' = built.lr_scheduler
    /\ resources' = resources \cup {"optimizer"}
    /\ log' = Append(log, Ev("build_opt", -1))
    /\ pc' = "resume"
    /\ UNCHANGED <<config, run, model, start_epoch, epoch, curLR, inputs,
                   train_loader, disk, written>>

\* lines 62-73
GetOptimizer ==
    /\ pc = "get_optimizer"
    /\ \E trainable \in Phases :
         LET built ==
               IF /\ ~(config.START_EPOCH = config.UNFIX_EPOCH)
                  /\ ~TableDriven(config.NAME)
               THEN BuildSiameseOptLr(config, config.START_EPOCH, 1)
               ELSE IF TableDriven(config.NAME)
                    THEN BuildSimpleSiameseOptLr(config, trainable, 1)
                    ELSE BuildSiameseOptLr(config, 0, 1)
         IN  /\ optimizer' = built.optimizer
             /\ lr_scheduler' = built.lr_scheduler
    /\ resources' = resources \cup {"optimizer"}
    /\ log' = Append(log, Ev("build_opt", -1))
    /\ pc' = "resume"
    /\ UNCHANGED <<config, run, model, start_epoch, epoch, curLR, inputs,
                   train_loader, disk,
                   written>>

ResumeIgnoreEpoch ==
    /\ pc = "resume"
    /\ IF Len(config.RESUME) > 0
       THEN IF RestoreOk(disk, config.RESUME, config.NAME)
            THEN LET r == RestoreFrom(disk, model, optimizer, config.RESUME)
                 IN  /\ model' = r.model
                     /\ optimizer' = r.optimizer
                     /\ start_epoch' = config.START_EPOCH
                     /\ log' = Append(log, Ev("restore", -1))
                     /\ pc' = "parallel"
            ELSE /\ log' = Append(log, Ev("raise", -1))
                 /\ pc' = "failed"
                 /\ UNCHANGED <<model, optimizer, start_epoch>>
       ELSE /\ start_epoch' = config.START_EPOCH
            /\ pc' = "parallel"
            /\ UNCHANGED <<model, optimizer, log>>
    /\ UNCHANGED <<config, run, resources, lr_scheduler, epoch, curLR, inputs,
                   train_loader, disk, written>>

ResumeAnyTag ==
    /\ pc = "resume"
    /\ IF Len(config.RESUME) > 0
       THEN LET r == RestoreFrom(disk, model, optimizer, config.RESUME)
            IN  /\ model' = r.model
                /\ optimizer' = r.optimizer
                /\ start_epoch' = r.start_epoch
                /\ log' = Append(log, Ev("restore", -1))
                /\ pc' = "parallel"
       ELSE /\ start_epoch' = config.START_EPOCH
            /\ pc' = "parallel"
            /\ UNCHANGED <<model, optimizer, log>>
    /\ UNCHANGED <<config, run, resources, lr_scheduler, epoch, curLR, inputs,
                   train_loader, disk, written>>

ResumeStartZero ==
    /\ pc = "resume"
    /\ IF Len(config.RESUME) > 0
       THEN IF RestoreOk(disk, config.RESUME, config.NAME)
            THEN LET r == RestoreFrom(disk, model, optimizer, config.RESUME)
                 IN  /\ model' = r.model
                     /\ optimizer' = r.optimizer
                     /\ start_epoch' = r.start_epoch
                     /\ log' = Append(log, Ev("restore", -1))
                     /\ pc' = "parallel"
            ELSE /\ log' = Append(log, Ev("raise", -1))
                 /\ pc' = "failed"
                 /\ UNCHANGED <<model, optimizer, start_epoch>>
       ELSE /\ start_epoch' = 0
            /\ pc' = "parallel"
            /\ UNCHANGED <<model, optimizer, log>>
    /\ UNCHANGED <<config, run, resources, lr_scheduler, epoch, curLR, inputs,
                   train_loader, disk, written>>

\* lines 76-79
Resume ==
    /\ pc = "resume"
    /\ IF Len(config.RESUME) > 0
       THEN IF RestoreOk(disk, config.RESUME, config.NAME)
            THEN LET r == RestoreFrom(disk, model, optimizer, config.RESUME)
                 IN  /\ model' = r.model
                     /\ optimizer' = r.optimizer
                     /\ start_epoch' = r.start_epoch
                     /\ log' = Append(log, Ev("restore", -1))
                     /\ pc' = "parallel"
            ELSE /\ log' = Append(log, Ev("raise", -1))
                 /\ pc' = "failed"
                 /\ UNCHANGED <<model, optimizer, start_epoch,
                   written>>
       ELSE /\ start_epoch' = config.START_EPOCH
            /\ pc' = "parallel"
            /\ UNCHANGED <<model, optimizer, log,
                   written>>
    /\ UNCHANGED <<config, run, resources, lr_scheduler, epoch, curLR, inputs,
                   train_loader, disk,
                   written>>

\* lines 82-99, and the range object of line 101
Parallel ==
    /\ pc = "parallel"
    /\ model' = [model EXCEPT !.wrap = IF ~config.DDP THEN "DataParallel"
                                       ELSE "DistributedDataParallel"]
    /\ epoch' = start_epoch
    /\ pc' = "loop"
    /\ UNCHANGED <<config, run, resources, optimizer, lr_scheduler, start_epoch,
                   curLR, inputs, train_loader, disk, log,
                   written>>

LoopHeadInclusive ==
    /\ pc = "loop"
    /\ IF epoch <= config.END_EPOCH
       THEN /\ pc' = "dataloader"
            /\ log' = log
       ELSE /\ pc' = "terminated"
            /\ log' = Append(log, Ev("close", epoch))
    /\ UNCHANGED <<config, run, resources, model, optimizer, lr_scheduler,
                   start_epoch, epoch, curLR, inputs, train_loader, disk,
                   written>>

\* line 101: the loop test; line 136 when the range is exhausted
LoopHead ==
    /\ pc = "loop"
    /\ IF epoch < config.END_EPOCH
       THEN /\ pc' = "dataloader"
            /\ log' = log
       ELSE /\ pc' = "terminated"
            /\ log' = Append(log, Ev("close", epoch))
    /\ UNCHANGED <<config, run, resources, model, optimizer, lr_scheduler,
                   start_epoch, epoch, curLR, inputs, train_loader, disk,
                   written>>

BuildDataLoaderOnce ==
    /\ pc = "dataloader"
    /\ IF epoch = start_epoch
       THEN /\ train_loader' = IF ~config.DDP THEN LocalLoader(config, epoch)
                               ELSE DistributedLoader(config, epoch)
            /\ log' = Append(log, Ev(IF ~config.DDP THEN "DataLoader"
                                     ELSE "DistributedSampler", epoch))
       ELSE UNCHANGED <<train_loader, log>>
    /\ resources' = resources \cup {"data_loader"}
    /\ pc' = "unfix"
    /\ UNCHANGED <<config, run, model, optimizer, lr_scheduler, start_epoch,
                   epoch, curLR, inputs, disk, written>>

\* lines 103-110
BuildDataLoader ==
    /\ pc = "dataloader"
    /\ train_loader' = IF ~config.DDP THEN LocalLoader(config, epoch)
                       ELSE DistributedLoader(config, epoch)
    /\ resources' = resources \cup {"data_loader"}
    /\ log' = Append(log, Ev(IF ~config.DDP THEN "DataLoader"
                             ELSE "DistributedSampler", epoch))
    /\ pc' = "unfix"
    /\ UNCHANGED <<config, run, model, optimizer, lr_scheduler, start_epoch,
                   epoch, curLR, inputs, disk, written>>

UnfixCondFrom(e, cfg) == e >= cfg.UNFIX_EPOCH
\* line 113
UnfixCond(e, cfg) == e = cfg.UNFIX_EPOCH

UnfixKeepScheduler ==
    /\ pc = "unfix"
    /\ IF UnfixCond(epoch, config)
       THEN LET built == BuildSiameseOptLr(config, epoch, optimizer.gen + 1)
            IN  /\ optimizer' = built.optimizer
                /\ lr_scheduler' = lr_scheduler
                /\ log' = Append(log, Ev("rebuild", epoch))
       ELSE UNCHANGED <<optimizer, lr_scheduler, log>>
    /\ pc' = "lr"
    /\ UNCHANGED <<config, run, resources, model, start_epoch, epoch, curLR,
                   inputs, train_loader, disk, written>>

\* lines 113-117
Unfix ==
    /\ pc = "unfix"
    /\ IF UnfixCond(epoch, config)
       THEN LET built == BuildSiameseOptLr(config, epoch, optimizer.gen + 1)
            IN  /\ optimizer' = built.optimizer
                /\ lr_scheduler' = built.lr_scheduler
                /\ log' = Append(log, Ev("rebuild", epoch))
       ELSE UNCHANGED <<optimizer, lr_scheduler, log,
                   written>>
    /\ pc' = "lr"
    /\ UNCHANGED <<config, run, resources, model, start_epoch, epoch, curLR,
                   inputs, train_loader, disk,
                   written>>

\* lines 119-125: the way the learning rate is read is chosen by NAME
LRAccess(name) == IF TableDriven(name) THEN "table" ELSE "scheduler"

ResolveLR ==
    /\ pc = "lr"
    /\ IF lr_scheduler.strategy = LRAccess(config.NAME)
       THEN /\ curLR' = [gen |-> lr_scheduler.gen, epoch |-> epoch]
            /\ lr_scheduler' = IF TableDriven(config.NAME) THEN lr_scheduler
                                ELSE [lr_scheduler EXCEPT !.last_epoch = epoch]
            /\ log' = Append(log, Ev("lr", epoch))
            /\ pc' = "train"
       ELSE /\ log' = Append(log, Ev("raise", epoch))
            /\ pc' = "failed"
            /\ UNCHANGED <<curLR, lr_scheduler,
                   written>>
    /\ UNCHANGED <<config, run, resources, model, optimizer, start_epoch, epoch,
                   inputs, train_loader, disk,
                   written>>

TrainSkipOnFailure ==
    /\ pc = "train"
    /\ inputs' = [epoch |-> epoch + 1, cur_lr |-> curLR,
                  optimizer |-> optimizer.gen, phase |-> optimizer.phase]
    /\ \/ /\ model' = [model EXCEPT !.weights = @ + 1]
          /\ optimizer' = [optimizer EXCEPT !.st = @ + 1]
          /\ log' = Append(log, Ev("train", epoch))
          /\ pc' = "save"
       \/ /\ log' = Append(log, Ev("train_raise", epoch))
          /\ pc' = "next"
          /\ UNCHANGED <<model, optimizer>>
    /\ UNCHANGED <<config, run, resources, lr_scheduler, start_epoch, epoch,
                   curLR, train_loader, disk, written>>

TrainDetached ==
    /\ pc = "train"
    /\ inputs' = [epoch |-> epoch + 1, cur_lr |-> curLR,
                  optimizer |-> optimizer.gen, phase |-> optimizer.phase]
    /\ \/ /\ pc' = "save"
          /\ UNCHANGED <<model, optimizer, log>>
       \/ /\ log' = Append(log, Ev("train_raise", epoch))
          /\ pc' = "failed"
          /\ UNCHANGED <<model, optimizer>>
    /\ UNCHANGED <<config, run, resources, lr_scheduler, start_epoch, epoch,
                   curLR, train_loader, disk, written>>

TrainSameEpoch ==
    /\ pc = "train"
    /\ inputs' = [epoch |-> epoch, cur_lr |-> curLR,
                  optimizer |-> optimizer.gen, phase |-> optimizer.phase]
    /\ \/ /\ model' = [model EXCEPT !.weights = @ + 1]
          /\ optimizer' = [optimizer EXCEPT !.st = @ + 1]
          /\ log' = Append(log, Ev("train", epoch))
          /\ pc' = "save"
       \/ /\ log' = Append(log, Ev("train_raise", epoch))
          /\ pc' = "failed"
          /\ UNCHANGED <<model, optimizer>>
    /\ UNCHANGED <<config, run, resources, lr_scheduler, start_epoch, epoch,
                   curLR, train_loader, disk, written>>

\* lines 127-131: the trainer returns the trained model, or raises
Train ==
    /\ pc = "train"
    /\ inputs' = [epoch |-> epoch + 1, cur_lr |-> curLR,
                  optimizer |-> optimizer.gen, phase |-> optimizer.phase]
    /\ \/ /\ model' = [model EXCEPT !.weights = @ + 1]
          /\ optimizer' = [optimizer EXCEPT !.st = @ + 1]
          /\ log' = Append(log, Ev("train", epoch))
          /\ pc' = "save"
       \/ /\ log' = Append(log, Ev("train_raise", epoch))
          /\ pc' = "failed"
          /\ UNCHANGED <<model, optimizer,
                   written>>
    /\ UNCHANGED <<config, run, resources, lr_scheduler, start_epoch, epoch,
                   curLR, train_loader, disk,
                   written>>

SaveModelIfBest ==
    /\ pc = "save"
    /\ pc' = "next"
    /\ UNCHANGED <<config, run, resources, model, optimizer, lr_scheduler,
                   start_epoch, epoch, curLR, inputs, train_loader, disk, log,
                   written>>

\* line 134
SaveModel ==
    /\ pc = "save"
    /\ disk' = SaveModelFile(disk, model, epoch, optimizer, config.NAME, FALSE)
    /\ written' = {w \in written : Key(w) # [epoch |-> epoch, arch |-> config.NAME]}
                  \cup {[epoch |-> epoch, arch |-> config.NAME,
                          weights |-> model.weights, st |-> optimizer.st]}
    /\ log' = Append(log, Ev("save", epoch))
    /\ pc' = "next"
    /\ UNCHANGED <<config, run, resources, model, optimizer, lr_scheduler,
                   start_epoch, epoch, curLR, inputs, train_loader>>

\* line 101: the range yields the next epoch
LoopNext ==
    /\ pc = "next"
    /\ epoch' = epoch + 1
    /\ pc' = "loop"
    /\ UNCHANGED <<config, run, resources, model, optimizer, lr_scheduler,
                   start_epoch, curLR, inputs, train_loader, disk, log,
                   written>>

\* line 179: the script is started again by hand on the same configuration
\* file, possibly with another MODEL.NAME and with RESUME set to a checkpoint
\* of the checkpoint directory
NewRun ==
    /\ pc \in {"terminated", "failed"}
    /\ run < MaxRuns
    /\ \E name \in Names, path \in {<<>>} \cup {<<Key(c)>> : c \in disk} :
         config' = [config EXCEPT !.NAME = name, !.RESUME = path]
    /\ run' = run + 1
    /\ pc' = "main"
    /\ resources' = {}
    /\ model' = NoModel
    /\ optimizer' = NoOptimizer
    /\ lr_scheduler' = NoScheduler
    /\ start_epoch' = -1
    /\ epoch' = -1
    /\ curLR' = NoLR
    /\ inputs' = NoInputs
    /\ train_loader' = NoLoader
    /\ log' = <<>>
    /\ UNCHANGED <<disk, written>>

Step ==
    \/ Main \/ BuildModel \/ GetOptimizer \/ Resume \/ Parallel \/ LoopHead
    \/ BuildDataLoader \/ Unfix \/ ResolveLR \/ Train \/ SaveModel \/ LoopNext

Next == Step \/ NewRun

Spec == Init /\ [][Next]_vars

\* the same process, started on the data configurations
DataSpec == InitData /\ [][Next]_vars

\* every call the process makes returns: the process keeps taking steps
LiveSpec == Spec /\ WF_vars(Step)

\* =================================================================== claims
Events(ev)      == {i \in DOMAIN log : log[i].ev = ev}
EventsAt(ev, e) == {i \in DOMAIN log : log[i].ev = ev /\ log[i].epoch = e}
Resumed         == Len(config.RESUME) > 0
\* the phase the epoch calls for
PhaseOf(e)      == IF e < config.UNFIX_EPOCH THEN "WARM" ELSE "FULL"
\* the trainer has been invoked in this run; inputs is what it was handed
\* (inputs.epoch is the epoch index plus one, line 128)
TrainerInvoked  == inputs # NoInputs
TrainedEpoch    == inputs.epoch - 1

\* C1: whenever the trainer is invoked for epoch e, the optimization state it
\* is handed is in phase WARM if e < UNFIX_EPOCH and in phase FULL otherwise,
\* for every start, end and boundary epoch, with or without resume.
C1_PhaseMatchesEpoch ==
    TrainerInvoked => inputs.phase = PhaseOf(TrainedEpoch)

\* C2 (as stated): a run that reaches its terminal epoch has rebuilt the
\* optimization state in the loop exactly once.
C2_RebuildExactlyOnce ==
    pc = "terminated" => Cardinality(Events("rebuild")) = 1

\* C2 (amended): a run rebuilds the optimization state in the loop at most
\* once; a run that reaches its terminal epoch has rebuilt it once if
\* start_epoch <= UNFIX_EPOCH < END_EPOCH, and not at all otherwise.
C2_RebuildOnceIffBoundaryInRange ==
    /\ Cardinality(Events("rebuild")) <= 1
    /\ \A i \in Events("rebuild") : log[i].epoch = config.UNFIX_EPOCH
    /\ pc = "terminated" =>
         Cardinality(Events("rebuild")) =
            IF start_epoch <= config.UNFIX_EPOCH
               /\ config.UNFIX_EPOCH < config.END_EPOCH
            THEN 1 ELSE 0

C2_Witness ==
    /\ pc = "terminated"
    /\ Cardinality(Events("rebuild")) = 1
    /\ start_epoch < config.UNFIX_EPOCH
    /\ config.UNFIX_EPOCH + 1 < config.END_EPOCH

C4_ResumeAfterBoundaryIsFull ==
    (Resumed /\ TrainerInvoked /\ config.RESUME[1].epoch = 1
       /\ config.UNFIX_EPOCH = 1 /\ TrainedEpoch = 2)
    => (inputs.phase = "FULL" /\ Events("rebuild") = {})

Unsupported == config.NAME = ResNet
Last(q)     == q[Len(q)]

C7_TrainerFailureEndsRun ==
    \A i \in Events("train_raise") :
        LET e == log[i].epoch
        IN  /\ i = Len(log)
            /\ pc = "failed"
            /\ epoch = e
            /\ EventsAt("train", e) = {}
            /\ \A j \in Events("save") : log[j].epoch < e
            /\ \A d \in start_epoch..(e - 1) :
                 /\ Cardinality(EventsAt("save", d)) = 1
                 /\ Cardinality(EventsAt("train", d)) = 1
                 /\ \E c \in disk, w \in written :
                      /\ Key(c) = [epoch |-> d, arch |-> config.NAME]
                      /\ Key(w) = Key(c)
                      /\ c.state_dict = w.weights
                      /\ c.optimizer = w.st
            /\ \A j, k \in Events("save") : j < k => log[j].epoch < log[k].epoch
            /\ e > start_epoch =>
                 \E j \in EventsAt("save", e - 1) :
                     \A k \in Events("save") : k <= j

C7_Witness ==
    /\ Events("train_raise") # {}
    /\ pc = "failed"
    /\ epoch = start_epoch + 2
    /\ Cardinality(Events("save")) = 2

\* C8: for a supported architecture, whenever the learning rate of an epoch
\* is about to be resolved (lines 119-125), the way it is read (table lookup
\* for SiamFC / SiamDW, step and query otherwise) is the strategy the
\* optimization state in use was built with, so that resolving succeeds.
C8_ResolveLRMatchesStrategy ==
    pc = "lr" => lr_scheduler.strategy = LRAccess(config.NAME)

BodyEvents == {"DataLoader", "DistributedSampler", "rebuild", "lr", "train",
               "train_raise", "save"}

\* C9: the trainer is invoked at most once per epoch and exactly once in an
\* epoch whose checkpoint is written; and whatever is done for an epoch
\* after the first one (data loader, rebuild, learning rate, trainer,
\* checkpoint) comes after the trainer call and then the checkpoint write
\* of the epoch before it.
C9_EpochsDoNotOverlap ==
    /\ \A e \in 0..(MaxEpoch + 1) :
         /\ Cardinality(EventsAt("train", e) \cup EventsAt("train_raise", e)) <= 1
         /\ EventsAt("save", e) # {} => Cardinality(EventsAt("train", e)) = 1
    /\ \A j \in DOMAIN log :
         (log[j].ev \in BodyEvents /\ log[j].epoch > start_epoch) =>
            \E i, k \in 1..j :
                /\ i < k /\ k < j
                /\ log[i] = Ev("train", log[j].epoch - 1)
                /\ log[k] = Ev("save", log[j].epoch - 1)
    /\ (pc \in {"dataloader", "unfix", "lr", "train", "save", "next"}
          /\ epoch > start_epoch) =>
            /\ EventsAt("train", epoch - 1) # {}
            /\ EventsAt("save", epoch - 1) # {}

C9_Witness ==
    /\ pc = "dataloader"
    /\ epoch = start_epoch + 1
    /\ EventsAt("save", start_epoch) # {}

Ended == {"terminated", "failed"}

C10_Safety ==
    /\ pc = "terminated" =>
         /\ epoch = config.END_EPOCH
         /\ Last(log).ev = "close"
         /\ Events("raise") \cup Events("train_raise") = {}
    /\ epoch = config.END_EPOCH => pc \in {"loop", "terminated"}
    /\ pc = "failed" => Last(log).ev \in {"raise", "train_raise"}
    /\ \A i \in DOMAIN log :
         log[i].ev \in BodyEvents => log[i].epoch < config.END_EPOCH
    /\ \A c \in written : c.epoch < config.END_EPOCH

EpochsOf(ev) ==
    LET q == SelectSeq(log, LAMBDA x : x.ev = ev)
    IN  [i \in DOMAIN q |-> q[i].epoch]

\* C11: a run with START_EPOCH = 0, END_EPOCH = 3, UNFIX_EPOCH = 1 and no
\* resume hands the trainer a WARM state in epoch 0, rebuilds only in epoch 1,
\* before that epoch's learning rate and trainer call, hands the trainer a
\* FULL state from epoch 1 on, and, when no trainer call raises, ends
\* terminated having trained epochs 0, 1, 2 and written their checkpoints in
\* that order.
C11_ThreeEpochScenario ==
    (/\ config.START_EPOCH = 0 /\ config.END_EPOCH = 3
     /\ config.UNFIX_EPOCH = 1 /\ ~Resumed /\ ~Unsupported)
    =>
    /\ TrainerInvoked => inputs.phase = (IF TrainedEpoch = 0 THEN "WARM" ELSE "FULL")
    /\ \A i \in Events("rebuild") :
         /\ log[i].epoch = 1
         /\ \A j \in EventsAt("lr", 1) \cup EventsAt("train", 1) : i < j
    /\ EventsAt("lr", 1) # {} => Cardinality(Events("rebuild")) = 1
    /\ (pc \in {"terminated", "failed"} /\ Events("train_raise") = {}) =>
         /\ pc = "terminated"
         /\ EpochsOf("train") = <<0, 1, 2>>
         /\ EpochsOf("save") = <<0, 1, 2>>
         /\ {[epoch |-> e, arch |-> config.NAME] : e \in 0..2}
              \subseteq {Key(c) : c \in disk}

C13_ProcessGroupBeforeSampler ==
    /\ config.DDP =>
         /\ Events("init_process_group") = (IF pc = "main" THEN {} ELSE {1})
         /\ \A j \in Events("DistributedSampler") :
              /\ \E i \in Events("init_process_group") : i < j
              /\ "process_group" \in resources
         /\ Events("DataLoader") = {}
         /\ train_loader.sampler \in {"none", "DistributedSampler"}
    /\ ~config.DDP =>
         /\ Events("init_process_group") = {}
         /\ Events("DistributedSampler") = {}
         /\ "process_group" \notin resources
         /\ train_loader.sampler \in {"none", "None"}

C13_Witness ==
    /\ config.DDP
    /\ Cardinality(Events("DistributedSampler")) = 2
    /\ Events("init_process_group") = {1}

\* what has been done for epoch e, in order
StepsOf(e) ==
    LET q == SelectSeq(log, LAMBDA x : x.epoch = e
                                        /\ x.ev \in BodyEvents \cup {"raise"})
    IN  [i \in DOMAIN q |-> q[i].ev]
\* the steps of a whole epoch e
EpochSteps(e) ==
    <<IF config.DDP THEN "DistributedSampler" ELSE "DataLoader">>
    \o (IF e = config.UNFIX_EPOCH THEN <<"rebuild">> ELSE <<>>)
    \o <<"lr", "train", "save">>
IsPrefix(p, q) == Len(p) <= Len(q) /\ p = SubSeq(q, 1, Len(p))
\* p is the start of q, or the start of q up to a step that raised
IsRunOf(p, q) ==
    \/ IsPrefix(p, q)
    \/ /\ Len(p) >= 1 /\ Len(p) <= Len(q)
       /\ IsPrefix(SubSeq(p, 1, Len(p) - 1), q)
       /\ \/ Last(p) = "raise" /\ q[Len(p)] = "lr"
          \/ Last(p) = "train_raise" /\ q[Len(p)] = "train"

\* C15: what is done for an epoch is done in the order data loader, rebuild
\* (in the epoch equal to UNFIX_EPOCH and in no other), learning rate,
\* trainer, checkpoint; an epoch that is left behind has had all of these
\* steps, and the epoch counter has moved on by one only after the
\* checkpoint of the epoch was written.
C15_StepOrderInEpoch ==
    /\ \A e \in 0..(MaxEpoch + 1) :
         /\ IsRunOf(StepsOf(e), EpochSteps(e))
         /\ (start_epoch # -1 /\ start_epoch <= e /\ e < epoch)
              => StepsOf(e) = EpochSteps(e)
         /\ (epoch # -1 /\ e > epoch) => StepsOf(e) = <<>>
    /\ pc = "loop" => StepsOf(epoch) = <<>>
    /\ pc = "next" => StepsOf(epoch) = EpochSteps(epoch)
    /\ pc = "train" =>
         StepsOf(epoch) = SubSeq(EpochSteps(epoch), 1, Len(EpochSteps(epoch)) - 2)

C15_Witness ==
    /\ pc = "next"
    /\ epoch = config.UNFIX_EPOCH
    /\ epoch > start_epoch
    /\ Len(StepsOf(epoch)) = 5

\* the builds made so far in this run: the one of lines 62-69 and the rebuilds
Builds == IF optimizer = NoOptimizer THEN 0 ELSE 1 + Cardinality(Events("rebuild"))

\* C16: the optimizer and the schedule in use are always those of the latest
\* build; the learning rate of an epoch is resolved from that schedule, the
\* trainer of the epoch is handed that optimizer and that learning rate, and
\* the checkpoint of the epoch holds the state of that optimizer: nothing of
\* an earlier build is used once a rebuild has been made.
C16_LatestBuildInUse ==
    /\ optimizer.gen = Builds
    /\ lr_scheduler.gen = Builds
    /\ pc \in {"train", "save", "next"} =>
         (curLR.gen = Builds /\ curLR.epoch = epoch)
    /\ pc \in {"save", "next"} =>
         (inputs.optimizer = Builds /\ inputs.cur_lr = curLR
            /\ inputs.phase = optimizer.phase)
    /\ pc = "next" =>
         \E w \in written :
             /\ Key(w) = [epoch |-> epoch, arch |-> config.NAME]
             /\ w.st = optimizer.st

C16_Witness ==
    /\ pc = "next"
    /\ Builds = 2
    /\ epoch > config.UNFIX_EPOCH
    /\ start_epoch < config.UNFIX_EPOCH

BodySteps == {i \in DOMAIN log : log[i].ev \in BodyEvents}

\* C18: a run with RESUME set reads the checkpoint at most once, after the
\* startup optimization state has been built and before anything is done
\* for an epoch, and has read it exactly once when anything is done for an
\* epoch; a run without RESUME never reads one, and its loop starts at
\* START_EPOCH, the first epoch it does anything for.
C18_CheckpointReadOnceAtStart ==
    /\ Resumed =>
         /\ Cardinality(Events("restore")) <= 1
         /\ \A i \in Events("restore") :
              /\ \E j \in Events("build_opt") : j < i
              /\ \A k \in BodySteps : i < k
         /\ (BodySteps # {} \/ pc \in {"parallel", "loop", "terminated"})
              => Cardinality(Events("restore")) = 1
    /\ ~Resumed =>
         /\ Events("restore") = {}
         /\ start_epoch \in {-1, config.START_EPOCH}
         /\ pc \in {"parallel", "loop", "terminated"} =>
              start_epoch = config.START_EPOCH
         /\ \A k \in BodySteps :
              /\ log[k].epoch >= config.START_EPOCH
              /\ \E j \in BodySteps : j <= k /\ log[j].epoch = config.START_EPOCH

C18_Witness ==
    /\ Resumed
    /\ Cardinality(Events("restore")) = 1
    /\ Cardinality(Events("train")) = 2

\* the phase of the startup state of a scheduler-driven architecture, from
\* START_EPOCH and UNFIX_EPOCH alone: that of START_EPOCH, but that of epoch
\* 0 when START_EPOCH = UNFIX_EPOCH
StartupPhase ==
    IF config.START_EPOCH = config.UNFIX_EPOCH
    THEN (IF config.UNFIX_EPOCH = 0 THEN "FULL" ELSE "WARM")
    ELSE (IF config.START_EPOCH > config.UNFIX_EPOCH THEN "FULL" ELSE "WARM")

C19_StartupState ==
    (optimizer.gen = 1) =>
        IF TableDriven(config.NAME)
        THEN lr_scheduler.strategy = "table" /\ optimizer.phase \in Phases
        ELSE lr_scheduler.strategy = "scheduler"
             /\ optimizer.phase = StartupPhase

\* C19: until the loop rebuilds it, the optimization state of a run is the
\* one built at startup: a table for SiamFC / SiamDW, and for the other
\* architectures a scheduler-driven state whose phase is that of START_EPOCH
\* against UNFIX_EPOCH, or that of epoch 0 when the two are equal; restoring
\* a checkpoint changes neither its phase nor its schedule, whatever epoch
\* the restore returns.
C19_StartupPhaseFromConfigOnly ==
    /\ []C19_StartupState
    /\ [][pc = "resume" =>
            /\ optimizer'.phase = optimizer.phase
            /\ optimizer'.gen = optimizer.gen
            /\ lr_scheduler' = lr_scheduler]_vars

C19_Witness ==
    /\ Resumed
    /\ pc = "train"
    /\ optimizer.gen = 1
    /\ config.START_EPOCH = config.UNFIX_EPOCH
    /\ start_epoch > config.UNFIX_EPOCH
    /\ optimizer.phase = "WARM"

\* C20: the epoch the trainer is handed is one more than the loop's epoch,
\* which is the one the boundary test, the learning rate and the checkpoint
\* of the same iteration use; so the trainer is handed values within
\* start_epoch+1 .. END_EPOCH, and a run that has reached its terminal epoch
\* has handed it END_EPOCH last, having trained and saved under start_epoch
\* .. END_EPOCH-1.
C20_TrainerEpochIsOneAhead ==
    /\ (pc \in {"save", "next"}
          \/ (pc = "failed" /\ Events("train_raise") # {})) =>
            /\ inputs.epoch = epoch + 1
            /\ inputs.cur_lr.epoch = epoch
    /\ TrainerInvoked =>
         /\ inputs.epoch \in (start_epoch + 1)..config.END_EPOCH
         /\ \E i \in Events("train") \cup Events("train_raise") :
              /\ log[i].epoch = inputs.epoch - 1
              /\ \A j \in Events("train") \cup Events("train_raise") : j <= i
    /\ \A i \in Events("rebuild") : log[i].epoch = config.UNFIX_EPOCH
    /\ pc = "next" =>
         \E w \in written : Key(w) = [epoch |-> inputs.epoch - 1,
                                      arch |-> config.NAME]
    /\ pc = "terminated" =>
         /\ EpochsOf("train") =
              [i \in 1..(config.END_EPOCH - start_epoch) |-> start_epoch + i - 1]
         /\ EpochsOf("save") = EpochsOf("train")
         /\ EpochsOf("lr") = EpochsOf("train")
         /\ TrainerInvoked => inputs.epoch = config.END_EPOCH

C20_Witness ==
    /\ pc = "terminated"
    /\ start_epoch = 1
    /\ config.END_EPOCH = 3
    /\ inputs.epoch = 3
    /\ EpochsOf("save") = <<1, 2>>

\* C14: with a single device in COMMON.GPUS (world_size = 1) the loader an
\* epoch builds has DATA_LEN \div BATCH batches on the distributed path and
\* on the plain path alike: the loader built here has as many batches as
\* the one the other path builds from the same configuration.
C14_SameBatchesAtWorldSizeOne ==
    (GpuNum(config) = 1 /\ train_loader # NoLoader) =>
        /\ train_loader.batches = config.DATA_LEN \div config.BATCH
        /\ train_loader.batches =
             IF config.DDP THEN LocalLoader(config, epoch).batches
             ELSE DistributedLoader(config, epoch).batches

C14_Witness ==
    /\ GpuNum(config) = 1
    /\ config.DDP
    /\ config.DATA_LEN = 3 /\ config.BATCH = 2
    /\ train_loader.sampler = "DistributedSampler"
    /\ train_loader.batches = 1

Range(q) == {q[i] : i \in DOMAIN q}
Ranks    == 0..(GpuNum(config) - 1)
\* the shard the process of rank r builds in epoch e: the same file run on
\* the same configuration but for DDP.RANK
ShardOfRank(r, e) == DistributedLoader([config EXCEPT !.RANK = r], e).indices

C17_SamePartitionEveryEpoch ==
    /\ train_loader.seed = SamplerSeed
    /\ train_loader.num_replicas = GpuNum(config)
    /\ train_loader.rank = config.RANK
    /\ train_loader.indices = ShardOfRank(config.RANK, start_epoch)
    /\ \A r \in Ranks : ShardOfRank(r, epoch) = ShardOfRank(r, start_epoch)

====
